---- MODULE Spec2Model ----
(***************************************************************************)
(* x402 community agent: the payment-gated API client (lib/x402-client.js) *)
(* and the publication queue of the dashboard (dashboard.js).              *)
(*                                                                         *)
(* Money is counted in whole units of the smallest quoted amount: the      *)
(* client adds and compares JavaScript numbers, and every property below   *)
(* uses the very expression the client evaluates (sessionSpending + cost), *)
(* so the unit does not matter.                                            *)
(***************************************************************************)
EXTENDS Integers, Sequences, FiniteSets, TLC

\* ------------------------------------------------------------------ bounds
NumCalls == 2          \* callApi invocations that may be in flight together
MaxInvocations == 3    \* invocations started in one behaviour
MaxBudget == 3         \* config.maxBudget, in units
MaxCost == 2           \* largest amount a 402 response quotes, in units

NumThreads == 2        \* scheduler ticks and HTTP handlers in flight together
MaxItems == 2          \* QueueItems created in one behaviour
MaxTime == 1           \* minutes the clock may advance
DayLen == 2            \* minutes in a calendar day of the model
MaxForced == 1         \* forced-retry requests in one behaviour

GateTimeout == 3       \* timeoutMs of waitForApproval, in poll sleeps (3 s)
MaxUpdates == 2        \* updates one getUpdates response carries
MaxDirect == 1         \* direct publish requests in one behaviour
MaxRetryMax == 2       \* largest configured scheduler.retryMax
MaxRetryTime == 4      \* minutes the clock may advance while retries run
MaxZone == 1           \* largest time zone offset, in minutes east of UTC
MaxScheduleTime == 2   \* minutes the clock may advance in the schedule specification
MaxRequests == 3       \* scheduler start and stop requests in one behaviour

Calls == 1..NumCalls

Threads == 1..NumThreads

\* --------------------------------------------------------------- variables
VARIABLES
    sessionSpending,   \* x402-client.js: let sessionSpending
    payments,          \* x402-client.js: const payments
    account,           \* x402-client.js: let account (FALSE = null)
    hasKey,            \* process.env.AGENT_PRIVATE_KEY is set
    maxBudget,         \* config.maxBudget
    call,              \* one record per callApi invocation slot
    invocations,       \* invocations started so far
    txCount,           \* transfers submitted to the chain so far
    items,             \* every QueueItem object created, by id (its index)
    queue,             \* dashboard.js: let queue, as the ids in array order
    disk,              \* publication-queue.json as last written by saveQueue
    history,           \* dashboard.js: let history
    settings,          \* agent-config.json as read by loadCurrentSettings
    now,               \* wall clock, in minutes
    tz,                \* the process's time zone: local time minus UTC, in minutes
    threads,           \* async activations: scheduler ticks and API handlers
    createdLog,        \* the objects createQueueItem returned, in order
    approved,          \* ids the approve route accepted
    forced,            \* forced-retry requests served so far
    tickMade,          \* ids of the queued items scheduler ticks pushed
    scheduler,         \* dashboard.js: schedulerInterval, schedulerRunning, live timers
    telegramEnabled,   \* config.platforms.telegram.enabled
    gate               \* one run of the command-line agent's main()

payVars == <<sessionSpending, payments, account, hasKey, maxBudget, call,
             invocations, txCount>>

queueVars == <<items, queue, disk, history, settings, now, tz, threads,
               createdLog, approved, forced, tickMade, scheduler>>

gateVars == <<telegramEnabled, gate>>

vars == <<payVars, queueVars, gateVars>>

\* ----------------------------------------------------- payment-gated client
\* What a 402 body's payment_details.amount may be: missing, a string that
\* parseFloat turns into NaN, or a decimal string.
Absent == [kind |-> "absent", val |-> 0]

NotANumber == [kind |-> "nan", val |-> 0]

Decimal(n) == [kind |-> "decimal", val |-> n]

Amounts == {Absent, NotANumber} \cup {Decimal(n) : n \in -1..MaxCost}

\* A 402 response body: json = the body parses as JSON.
Bodies == [json : BOOLEAN, amount : Amounts, recipient : BOOLEAN]

NoBody == [json |-> FALSE, amount |-> Absent, recipient |-> FALSE]

\* a JavaScript number: NaN, or the value val
NaN == [nan |-> TRUE, val |-> 0]

Number(n) == [nan |-> FALSE, val |-> n]

IdleCall == [pc |-> "idle", body |-> NoBody, cost |-> Number(0), txHash |-> 0,
             outcome |-> "none", status1 |-> 0, status2 |-> 0,
             proof |-> 0, http |-> 0, transfers |-> 0,
             spentBy |-> 0, paysBy |-> 0]

\* !details?.amount || !details?.recipient
NonStandard(body) == body.amount = Absent \/ ~body.recipient

\* parseFloat(details.amount)
ParseFloat(amount) ==
    IF amount.kind = "decimal" THEN Number(amount.val) ELSE NaN

\* sessionSpending + cost > config.maxBudget; any comparison with NaN is false
OverBudgetGe(spent, cost, max) ==
    IF cost.nan THEN FALSE ELSE spent + cost.val >= max

OverBudgetOff(spent, cost, max) == FALSE

OverBudget(spent, cost, max) ==
    IF cost.nan THEN FALSE ELSE spent + cost.val > max

\* initWallet: TRUE when it returns, FALSE when it throws
InitWalletOk(acc, key) == acc \/ key

\* lines 52-72: the first check of callApi that fails on a 402 response, in
\* the order the code evaluates them ("" = none fails)
FailureKindWalletFirst(b, cost, spent, max, acc, key) ==
    IF ~b.json THEN "not_json"
    ELSE IF ~InitWalletOk(acc, key) THEN "no_wallet"
    ELSE IF NonStandard(b) THEN "malformed"
    ELSE IF OverBudget(spent, cost, max) THEN "budget"
    ELSE ""

FailureKind(b, cost, spent, max, acc, key) ==
    IF ~b.json THEN "not_json"
    ELSE IF NonStandard(b) THEN "malformed"
    ELSE IF OverBudget(spent, cost, max) THEN "budget"
    ELSE IF ~InitWalletOk(acc, key) THEN "no_wallet"
    ELSE ""

\* BigInt(Math.round(cost * 1e6)) throws a RangeError on NaN
AmountInUnitsThrows(cost) == cost.nan

\* receipt.status !== 'success' decides whether the ledger is touched
ReceiptCommitsAlways(status) == TRUE

ReceiptCommits(status) == status = "success"

\* payments.push({ amount: cost, txHash, ... })
PaymentRecordNoHash(cost, txHash) == [amount |-> cost, txHash |-> 0]

PaymentRecord(cost, txHash) == [amount |-> cost, txHash |-> txHash]

\* what callApi does with the response to the proof-carrying retry
AfterRetryPayAgain(status) == IF status = 402 THEN "body" ELSE "done"

AfterRetry(status) == "done"

\* The step of invocation c, with the ledger bookkeeping of what c itself
\* added to the ledger in this step.
CallStep(c, rec) ==
    /\ call' = [call EXCEPT ![c] =
               [rec EXCEPT !.spentBy = rec.spentBy + (sessionSpending' - sessionSpending),
                           !.paysBy = rec.paysBy + (Len(payments') - Len(payments))]]
    /\ UNCHANGED <<queueVars, gateVars>>

LedgerSame == UNCHANGED <<sessionSpending, payments>>

\* callApi entered: the first fetch is issued (line 39)
StartCall(c) ==
    /\ call[c].pc = "idle"
    /\ invocations < MaxInvocations
    /\ invocations' = invocations + 1
    /\ LedgerSame
    /\ CallStep(c, [IdleCall EXCEPT !.pc = "fetch", !.http = 1])
    /\ UNCHANGED <<account, hasKey, maxBudget, txCount>>

\* the first fetch rejects (network error): callApi throws
FirstFetchFails(c) ==
    /\ call[c].pc = "fetch"
    /\ LedgerSame
    /\ CallStep(c, [call[c] EXCEPT !.pc = "done", !.outcome = "network"])
    /\ UNCHANGED <<account, hasKey, maxBudget, invocations, txCount>>

\* lines 46-49: a response that is not 402 is returned as the result
FirstResponseNormal(c) ==
    /\ call[c].pc = "fetch"
    /\ LedgerSame
    /\ CallStep(c, [call[c] EXCEPT !.pc = "done", !.outcome = "ok", !.status1 = 200])
    /\ UNCHANGED <<account, hasKey, maxBudget, invocations, txCount>>

\* line 46 with status 402: the body is awaited (line 53)
FirstResponse402(c) ==
    /\ call[c].pc = "fetch"
    /\ \E b \in Bodies :
         /\ LedgerSame
         /\ CallStep(c, [call[c] EXCEPT !.pc = "body", !.status1 = 402, !.body = b])
    /\ UNCHANGED <<account, hasKey, maxBudget, invocations, txCount>>

\* lines 53-84: from the parsed body up to the submission of the transfer
Process402(c) ==
    /\ call[c].pc = "body"
    /\ LET b == call[c].body
           cost == ParseFloat(b.amount)
           kind == FailureKind(b, cost, sessionSpending, maxBudget, account, hasKey)
       IN  /\ LedgerSame
           /\ IF kind # "" THEN
                   /\ CallStep(c, [call[c] EXCEPT !.pc = "done", !.outcome = kind])
                   /\ UNCHANGED <<account, txCount>>
              ELSE IF AmountInUnitsThrows(cost) THEN
                   /\ account' = TRUE
                   /\ txCount' = txCount
                   /\ CallStep(c, [call[c] EXCEPT !.pc = "done", !.outcome = "range_error"])
              ELSE /\ account' = TRUE
                   /\ txCount' = txCount
                   /\ CallStep(c, [call[c] EXCEPT !.pc = "submit", !.cost = cost,
                                                  !.transfers = call[c].transfers + 1])
    /\ UNCHANGED <<hasKey, maxBudget, invocations>>

\* lines 85-90: writeContract rejects
SubmitFails(c) ==
    /\ call[c].pc = "submit"
    /\ LedgerSame
    /\ CallStep(c, [call[c] EXCEPT !.pc = "done", !.outcome = "submit_error"])
    /\ UNCHANGED <<account, hasKey, maxBudget, invocations, txCount>>

\* line 79 resolves with the hash of a new transaction; the receipt is awaited
SubmitOk(c) ==
    /\ call[c].pc = "submit"
    /\ txCount' = txCount + 1
    /\ LedgerSame
    /\ CallStep(c, [call[c] EXCEPT !.pc = "receipt", !.txHash = txCount + 1])
    /\ UNCHANGED <<account, hasKey, maxBudget, invocations>>

\* line 92 rejects: the 120 s wait timed out
ReceiptTimeout(c) ==
    /\ call[c].pc = "receipt"
    /\ LedgerSame
    /\ CallStep(c, [call[c] EXCEPT !.pc = "done", !.outcome = "receipt_timeout"])
    /\ UNCHANGED <<account, hasKey, maxBudget, invocations, txCount>>

\* lines 97-115: the receipt arrived; on success the ledger is updated and
\* the retry request is issued with the proof headers
ReceiptArrives(c) ==
    /\ call[c].pc = "receipt"
    /\ \E status \in {"success", "reverted"} :
         /\ IF ReceiptCommits(status)
            THEN /\ sessionSpending' = sessionSpending + call[c].cost.val
                 /\ payments' = Append(payments, PaymentRecord(call[c].cost.val, call[c].txHash))
            ELSE LedgerSame
         /\ IF status # "success"
            THEN CallStep(c, [call[c] EXCEPT !.pc = "done", !.outcome = "receipt_failed"])
            ELSE CallStep(c, [call[c] EXCEPT !.pc = "retry", !.http = call[c].http + 1,
                                             !.proof = call[c].txHash])
    /\ UNCHANGED <<account, hasKey, maxBudget, invocations, txCount>>

\* the retry fetch rejects (network error) after the payment was recorded
RetryFetchFails(c) ==
    /\ call[c].pc = "retry"
    /\ LedgerSame
    /\ CallStep(c, [call[c] EXCEPT !.pc = "done", !.outcome = "network_retry"])
    /\ UNCHANGED <<account, hasKey, maxBudget, invocations, txCount>>

\* lines 117-118: whatever the retry answers is returned as the result
RetryResponse(c) ==
    /\ call[c].pc = "retry"
    /\ \E status \in {200, 402} :
         /\ LedgerSame
         /\ CallStep(c, [call[c] EXCEPT !.pc = AfterRetry(status), !.status2 = status,
                                        !.outcome = IF AfterRetry(status) = "done"
                                                    THEN "ok" ELSE "none"])
    /\ UNCHANGED <<account, hasKey, maxBudget, invocations, txCount>>

\* the caller is done with the result; the slot serves the next invocation
Return(c) ==
    /\ call[c].pc = "done"
    /\ invocations < MaxInvocations
    /\ LedgerSame
    /\ call' = [call EXCEPT ![c] = IdleCall]
    /\ UNCHANGED <<account, hasKey, maxBudget, invocations, txCount>>
    /\ UNCHANGED <<queueVars, gateVars>>

\* ------------------------------------------------------- publication queue
\* Object.keys(settings.platforms), in the order the code iterates them; the
\* model keeps four of the eight keys: two with a publisher, one with a
\* publisher but no generated content, one without a publisher case.
PlatformOrder == <<"discord", "twitter", "devto", "hn">>

Platforms == {PlatformOrder[i] : i \in 1..Len(PlatformOrder)}

\* the platforms publishQueueItem's switch has a case for
Supported == {"discord", "twitter", "devto"}

\* the strategy the schedule and the run-now route name
Strategies == {"daily-stats"}

\* the keys of the contents object the strategy returns (daily-stats has no
\* devto entry)
ContentsOf(strategy) == {"discord", "twitter", "hn"}

NoTime == -1

NoResults == [ok |-> {}, failed |-> {}]

\* the platforms of a set in iteration order
RECURSIVE InOrder(_, _)
InOrder(set, order) ==
    IF order = <<>> THEN <<>>
    ELSE IF Head(order) \in set
         THEN <<Head(order)>> \o InOrder(set, Tail(order))
         ELSE InOrder(set, Tail(order))

\* item.results[platform] = result
PutResult(results, p, success) ==
    IF success THEN [ok |-> results.ok \cup {p}, failed |-> results.failed \ {p}]
    ELSE [ok |-> results.ok \ {p}, failed |-> results.failed \cup {p}]

\* new Date(...).toISOString().slice(0, 10)
DateOf(t) == t \div DayLen

\* HH:MM of a time
TimeOfDay(t) == t % DayLen

\* getHours, getMinutes, getDay: the fields of a time in the local time zone
LocalTime(t) == t + tz

\* createQueueItem(strategy, previewResult, platforms, autoPublish)
createQueueItemAlwaysPending(id, strategy, platforms, autoPublish, t) ==
    [id |-> id, strategy |-> strategy, platforms |-> platforms,
     autoPublish |-> autoPublish, status |-> "pending",
     retryCount |-> 0, nextRetry |-> NoTime, createdAt |-> t,
     publishedAt |-> NoTime, results |-> NoResults]

createQueueItem(id, strategy, platforms, autoPublish, t) ==
    [id |-> id, strategy |-> strategy, platforms |-> platforms,
     autoPublish |-> autoPublish,
     status |-> IF autoPublish THEN "pending" ELSE "awaiting_approval",
     retryCount |-> 0, nextRetry |-> NoTime, createdAt |-> t,
     publishedAt |-> NoTime, results |-> NoResults]

\* settings.scheduler?.retryMax || 3
DefaultRetryMax == 3

MaxRetriesOf(cfg) == IF cfg.retryMax = 0 THEN DefaultRetryMax ELSE cfg.retryMax

\* delays[Math.min(item.retryCount, delays.length - 1)]
MinOf(a, b) == IF a < b THEN a ELSE b

RetryDelayAfterIncrement(delays, retryCount) ==
    delays[MinOf(retryCount + 1, Len(delays) - 1) + 1]

RetryDelay(delays, retryCount) == delays[MinOf(retryCount, Len(delays) - 1) + 1]

\* lines 426-447: the status a publish pass ends with
StatusAfterPassAnyOk(results, retryCount, maxRetries) ==
    IF results.ok # {} THEN "published"
    ELSE IF retryCount < maxRetries THEN "retry" ELSE "failed"

StatusAfterPass(results, retryCount, maxRetries) ==
    LET allOk == results.failed = {}
        anyOk == results.ok # {}
    IN  IF allOk THEN "published"
        ELSE IF anyOk THEN "partial"
        ELSE IF retryCount < maxRetries THEN "retry"
        ELSE "failed"

\* lines 461-463: the platforms a retry sweep hands to the new pass
FailedPlatformsAll(results) == results.ok \cup results.failed

FailedPlatforms(results) == results.failed

\* the approve route's guard (line 853)
ApprovableAnyStatus(item) == TRUE

Approvable(item) == item.status = "awaiting_approval"

IdleThread ==
    [kind |-> "idle", pc |-> "idle", tickNow |-> 0, entries |-> <<>>,
     strategy |-> "", manual |-> {}, sweep |-> <<>>, item |-> 0,
     todo |-> <<>>, ret |-> "", attempted |-> {}, prevResults |-> NoResults,
     prevDue |-> FALSE, targets |-> {}, slot |-> 0, text |-> "", image |-> "",
     cause |-> ""]

\* The part of the state a synchronous run of JavaScript reads and writes:
\* the run of thread t from one await to the next.
StateOf(t) ==
    [items |-> items, queue |-> queue, disk |-> disk, history |-> history,
     createdLog |-> createdLog, tickMade |-> tickMade, th |-> threads[t]]

Commit(t, st) ==
    /\ items' = st.items
    /\ queue' = st.queue
    /\ disk' = st.disk
    /\ history' = st.history
    /\ createdLog' = st.createdLog
    /\ tickMade' = st.tickMade
    /\ threads' = [threads EXCEPT ![t] = st.th]

\* saveQueue(): the whole array is written; the model leaves the copy of the
\* per-platform results out of the file
Persisted(it) == [it EXCEPT !.results = NoResults]

Snapshot(its, q) == [i \in 1..Len(q) |-> Persisted(its[q[i]])]

SaveQueue(st) == [st EXCEPT !.disk = Snapshot(st.items, st.queue)]

\* line 449: the record pushed to history; the model keeps which item and
\* strategy it is about and leaves out the copy of the results
HistoryRecord(it) == [strategy |-> it.strategy, item |-> it.id, auto |-> it.autoPublish]

\* lines 426-452: the end of a publish pass, up to the await of sendReport
Finalize(st) ==
    LET id == st.th.item
        it == st.items[id]
        maxRetries == MaxRetriesOf(settings)
        status == StatusAfterPass(it.results, it.retryCount, maxRetries)
        done ==
            IF status \in {"published", "partial"}
            THEN [it EXCEPT !.status = status, !.publishedAt = now]
            ELSE IF status = "retry"
            THEN [it EXCEPT !.status = "retry",
                            !.nextRetry = now + RetryDelay(settings.retryDelays, it.retryCount),
                            !.retryCount = it.retryCount + 1]
            ELSE [it EXCEPT !.status = "failed"]
    IN  SaveQueue([st EXCEPT
            !.items[id] = done,
            !.history = Append(st.history, HistoryRecord(it)),
            !.th.pc = "report"])

\* lines 394-424: the loop over item.platforms, up to the next awaited
\* publisher call or to the end of the pass
RECURSIVE PassLoop(_)
PassLoop(st) ==
    IF st.th.todo = <<>> THEN Finalize(st)
    ELSE LET p == Head(st.th.todo)
             id == st.th.item
         IN  IF p \notin ContentsOf(st.items[id].strategy)
             THEN PassLoop([st EXCEPT !.th.todo = Tail(st.th.todo)])
             ELSE IF p \notin Supported
             THEN PassLoop([st EXCEPT
                      !.items[id].results = PutResult(st.items[id].results, p, FALSE),
                      !.th.todo = Tail(st.th.todo),
                      !.th.attempted = st.th.attempted \cup {p}])
             ELSE [st EXCEPT !.th.pc = "post",
                             !.th.attempted = st.th.attempted \cup {p}]

\* lines 390-393: publishQueueItem(item) entered
StartPass(st, id, ret) ==
    PassLoop(SaveQueue([st EXCEPT
        !.items[id].status = "publishing",
        !.th.item = id,
        !.th.todo = InOrder(st.items[id].platforms, PlatformOrder),
        !.th.targets = st.items[id].platforms,
        !.th.ret = ret,
        !.th.attempted = {},
        !.th.prevResults = NoResults,
        !.th.prevDue = FALSE]))

\* line 457: the items due for a retry
RetryDueWhenFailed(it) ==
    it.status = "failed" /\ it.nextRetry # NoTime /\ it.nextRetry <= now

RetryDue(it) == it.status = "retry" /\ it.nextRetry # NoTime /\ it.nextRetry <= now

\* line 464: item.platforms = failedPlatforms
RedrivenPlatformsKept(it) == it.platforms

RedrivenPlatforms(it) == FailedPlatforms(it.results)

\* lines 455-468: the loop of processRetryQueue over the items it selected
RECURSIVE SweepLoop(_)
SweepLoop(st) ==
    IF st.th.sweep = <<>> THEN [st EXCEPT !.th = IdleThread]
    ELSE LET id == Head(st.th.sweep)
             it == st.items[id]
             redriven == [st EXCEPT
                 !.items[id].platforms = RedrivenPlatforms(it),
                 !.items[id].results = NoResults,
                 !.th.sweep = Tail(st.th.sweep)]
         IN  [StartPass(redriven, id, "sweep") EXCEPT
                 !.th.prevResults = it.results,
                 !.th.prevDue = RetryDue(it)]

SweepStart(st) ==
    SweepLoop([st EXCEPT !.th.sweep =
        SelectSeq(st.queue, LAMBDA id : RetryDue(st.items[id]))])

\* line 336: a QueueItem of the strategy created today exists
AlreadyDone(st, strategy, date) ==
    \E i \in 1..Len(st.queue) :
        /\ st.items[st.queue[i]].strategy = strategy
        /\ DateOf(st.items[st.queue[i]].createdAt) = date

\* lines 331-346: the loop over today's entries, up to the await of the
\* strategy or, after the last entry, into processRetryQueue
RECURSIVE TickLoop(_)
TickLoop(st) ==
    IF st.th.entries = <<>> THEN SweepStart(st)
    ELSE LET e == Head(st.th.entries)
             rest == [st EXCEPT !.th.entries = Tail(st.th.entries)]
         IN  IF /\ TimeOfDay(LocalTime(st.th.tickNow)) = e.time
                /\ ~AlreadyDone(st, e.strategy, DateOf(st.th.tickNow))
             THEN [rest EXCEPT !.th.pc = "strategy", !.th.strategy = e.strategy]
             ELSE TickLoop(rest)

\* executeScheduledStrategy returned to its caller
ExecReturnEndsTick(st) == [st EXCEPT !.th = IdleThread]

ExecReturn(st) ==
    IF st.th.kind = "tick" THEN TickLoop(st) ELSE [st EXCEPT !.th = IdleThread]

\* push a new item and save the queue
PushReplacing(st, strategy, platforms, autoPublish) ==
    LET id == Len(st.items) + 1
        it == createQueueItem(id, strategy, platforms, autoPublish, now)
    IN  SaveQueue([st EXCEPT !.items = Append(st.items, it),
                             !.queue = <<id>>,
                             !.createdLog = Append(st.createdLog, it),
                             !.tickMade = IF st.th.kind = "tick"
                                          THEN st.tickMade \cup {id}
                                          ELSE st.tickMade])

Push(st, strategy, platforms, autoPublish) ==
    LET id == Len(st.items) + 1
        it == createQueueItem(id, strategy, platforms, autoPublish, now)
    IN  SaveQueue([st EXCEPT !.items = Append(st.items, it),
                             !.queue = Append(st.queue, id),
                             !.createdLog = Append(st.createdLog, it),
                             !.tickMade = IF st.th.kind = "tick"
                                          THEN st.tickMade \cup {id}
                                          ELSE st.tickMade])

\* lines 374-384: the manual item, up to the await of sendPreview
AfterAuto(st) ==
    IF st.th.manual # {}
    THEN [Push(st, st.th.strategy, st.th.manual, FALSE) EXCEPT !.th.pc = "preview"]
    ELSE ExecReturn(st)

AutoPlatformsNotManual(cfg) == {p \in Platforms : cfg.modes[p] # "manual"}

AutoPlatforms(cfg) == {p \in Platforms : cfg.modes[p] = "auto"}

ManualPlatforms(cfg) == {p \in Platforms : cfg.modes[p] = "manual"}

\* lines 354-372: the strategy returned its contents
StrategyReturned(st) ==
    LET auto == AutoPlatforms(settings)
        withManual == [st EXCEPT !.th.manual = ManualPlatforms(settings)]
    IN  IF auto # {}
        THEN StartPass(Push(withManual, st.th.strategy, auto, TRUE),
                       Len(st.items) + 1, "auto")
        ELSE AfterAuto(withManual)

\* the publish pass returned to its caller
PassReturned(st) ==
    IF st.th.ret = "auto" THEN AfterAuto(st)
    ELSE IF st.th.ret = "sweep" THEN SweepLoop(st)
    ELSE [st EXCEPT !.th = IdleThread]

QueueFrame == UNCHANGED <<settings, tz, now, approved, forced, payVars, gateVars, scheduler>>

\* a new activation: activations are interchangeable, the model numbers them
\* in the order of the free slots
Free(t) ==
    /\ threads[t].pc = "idle"
    /\ \A u \in Threads : u < t => threads[u].pc # "idle"

\* setInterval or startScheduler calls schedulerTick (lines 320-329)
TickStart(t) ==
    /\ Free(t)
    /\ Commit(t, TickLoop([StateOf(t) EXCEPT !.th.kind = "tick",
                                             !.th.tickNow = now,
                                             !.th.entries = settings.schedule]))
    /\ QueueFrame

\* POST /api/scheduler/run-now (lines 833-838), up to the await of the strategy
RunNow(t) ==
    /\ Free(t)
    /\ \E s \in Strategies :
         Commit(t, [StateOf(t) EXCEPT !.th.kind = "runnow", !.th.pc = "strategy",
                                      !.th.strategy = s])
    /\ QueueFrame

\* the strategy module's execute() resolved
StrategyOk(t) ==
    /\ threads[t].pc = "strategy"
    /\ Len(items) + Cardinality({m \in {"auto", "manual"} :
                                   \E p \in Platforms : settings.modes[p] = m}) <= MaxItems
    /\ Commit(t, StrategyReturned(StateOf(t)))
    /\ QueueFrame

\* import or execute() threw: caught and logged at line 385
StrategyThrows(t) ==
    /\ threads[t].pc = "strategy"
    /\ Commit(t, ExecReturn(StateOf(t)))
    /\ QueueFrame

\* the awaited publisher returned or threw (lines 418-423)
PostDone(t) ==
    /\ threads[t].pc = "post"
    /\ \E success \in BOOLEAN :
         LET st == StateOf(t)
             id == st.th.item
             p == Head(st.th.todo)
         IN  Commit(t, PassLoop([st EXCEPT
                 !.items[id].results = PutResult(st.items[id].results, p, success),
                 !.th.todo = Tail(st.th.todo)]))
    /\ QueueFrame

\* sendReport settled (line 452)
ReportDone(t) ==
    /\ threads[t].pc = "report"
    /\ Commit(t, PassReturned(StateOf(t)))
    /\ QueueFrame

\* sendPreview settled (line 379)
PreviewDone(t) ==
    /\ threads[t].pc = "preview"
    /\ Commit(t, ExecReturn(StateOf(t)))
    /\ QueueFrame

\* ------------------------------------ content generation (content-gen.js)
\* generateText, lines 32-39: the text the strategy gets for the outcome of
\* callApi ("thrown" = the rejection reaches the strategy)
TextOfUncaught(outcome) == IF outcome = "ok" THEN "api" ELSE "thrown"

TextOf(outcome) == IF outcome = "ok" THEN "api" ELSE "local"

\* generateImage, lines 56-60
ImageOf(outcome) == IF outcome = "ok" THEN "url" ELSE "none"

\* the slot a new invocation of callApi takes
FreeSlot(c) ==
    /\ call[c].pc = "idle"
    /\ \A d \in Calls : d < c => call[d].pc # "idle"

\* callApi entered on slot c, as in StartCall
Invoke(c) ==
    /\ invocations < MaxInvocations
    /\ invocations' = invocations + 1
    /\ call' = [call EXCEPT ![c] = [IdleCall EXCEPT !.pc = "fetch", !.http = 1]]

ContentFrame ==
    UNCHANGED <<settings, tz, now, approved, forced, gateVars, scheduler,
                sessionSpending,
                payments, account, hasKey, maxBudget, txCount>>

\* the thread alone moves on, to the await of a callApi
Awaiting(t, th) ==
    /\ threads' = [threads EXCEPT ![t] = th]
    /\ UNCHANGED <<items, queue, disk, history, createdLog, tickMade>>

\* daily-stats.js lines 43-58 and dashboard.js lines 352-372: execute()
\* returns its contents and the items are created
Yield(t, th) ==
    /\ Len(items) + Cardinality({m \in {"auto", "manual"} :
                                   \E p \in Platforms : settings.modes[p] = m}) <= MaxItems
    /\ Commit(t, StrategyReturned([StateOf(t) EXCEPT !.th = th]))

\* fetchStats resolved and generateText is entered (daily-stats.js lines
\* 14-29): without a wallet secret the text is local and no image is made
\* (content-gen.js lines 28-31, 55); with one, callApi is awaited
StatsDone(t) ==
    /\ threads[t].pc = "strategy"
    /\ IF hasKey
       THEN \E c \in Calls :
              /\ FreeSlot(c)
              /\ Invoke(c)
              /\ Awaiting(t, [threads[t] EXCEPT !.pc = "text", !.slot = c])
       ELSE /\ Yield(t, [threads[t] EXCEPT !.text = "local", !.image = "none"])
            /\ UNCHANGED <<call, invocations>>
    /\ ContentFrame

\* the callApi of generateText settled (content-gen.js lines 34-39); then
\* generateImage is called if config.generateImages (daily-stats.js line 36)
TextDone(t) ==
    /\ threads[t].pc = "text"
    /\ call[threads[t].slot].pc = "done"
    /\ LET c == threads[t].slot
           outcome == call[c].outcome
           th == [threads[t] EXCEPT !.text = TextOf(outcome),
                                    !.cause = IF outcome = "ok" THEN "" ELSE outcome]
       IN  IF th.text = "thrown"
           THEN /\ Commit(t, ExecReturn([StateOf(t) EXCEPT !.th = th]))
                /\ call' = [call EXCEPT ![c] = IdleCall]
                /\ UNCHANGED invocations
           ELSE \E generateImages \in BOOLEAN :
                  IF generateImages
                  THEN /\ Invoke(c)
                       /\ Awaiting(t, [th EXCEPT !.pc = "image"])
                  ELSE /\ Yield(t, [th EXCEPT !.image = "none", !.slot = 0])
                       /\ call' = [call EXCEPT ![c] = IdleCall]
                       /\ UNCHANGED invocations
    /\ ContentFrame

\* the callApi of generateImage settled (content-gen.js lines 58-60)
ImageDone(t) ==
    /\ threads[t].pc = "image"
    /\ call[threads[t].slot].pc = "done"
    /\ LET c == threads[t].slot
           outcome == call[c].outcome
       IN  /\ Yield(t, [threads[t] EXCEPT
                          !.image = ImageOf(outcome), !.slot = 0,
                          !.cause = IF outcome = "ok" THEN threads[t].cause ELSE outcome])
           /\ call' = [call EXCEPT ![c] = IdleCall]
           /\ UNCHANGED invocations
    /\ ContentFrame

InQueue(id) == \E i \in 1..Len(queue) : queue[i] = id

\* POST /api/queue/:id/approve (lines 849-855)
Approve(t, id) ==
    /\ Free(t)
    /\ InQueue(id)
    /\ Approvable(items[id])
    /\ approved' = approved \cup {id}
    /\ Commit(t, StartPass([StateOf(t) EXCEPT !.th.kind = "approve"], id, "approve"))
    /\ UNCHANGED <<settings, tz, now, forced, payVars, gateVars, scheduler>>

\* POST /api/queue/:id/retry (lines 860-869)
ForcedRetry(id) ==
    /\ InQueue(id)
    /\ forced < MaxForced
    /\ forced' = forced + 1
    /\ items' = [items EXCEPT ![id].retryCount = 0, ![id].status = "retry",
                              ![id].nextRetry = now]
    /\ disk' = Snapshot(items', queue)
    /\ UNCHANGED <<queue, history, settings, tz, now, threads, createdLog, approved,
                   tickMade, payVars, gateVars, scheduler>>

\* an activation still holds a reference to the item object
Referenced(id) ==
    \E t \in Threads :
        \/ threads[t].item = id /\ threads[t].pc \in {"post", "report"}
        \/ \E i \in 1..Len(threads[t].sweep) : threads[t].sweep[i] = id

\* an object that is neither in the queue nor referenced is garbage
Garbage(id) ==
    [id |-> id, strategy |-> "", platforms |-> {}, autoPublish |-> FALSE,
     status |-> "deleted", retryCount |-> 0, nextRetry |-> NoTime,
     createdAt |-> 0, publishedAt |-> NoTime, results |-> NoResults]

\* DELETE /api/queue/:id (lines 873-880)
Delete(id) ==
    /\ InQueue(id)
    /\ queue' = SelectSeq(queue, LAMBDA q : q # id)
    /\ disk' = Snapshot(items, queue')
    /\ items' = IF Referenced(id) THEN items ELSE [items EXCEPT ![id] = Garbage(id)]
    /\ tickMade' = tickMade \ {id}
    /\ UNCHANGED <<history, settings, tz, now, threads, createdLog, approved, forced,
                   payVars, gateVars, scheduler>>

\* line 782: if (history.length > 100) history.shift()
HistoryCap == 100

CapHistory(h) == IF Len(h) > HistoryCap THEN Tail(h) ELSE h

\* line 781: the record of a direct publish request (it has no auto field;
\* the model fills it with FALSE)
DirectRecord == [strategy |-> "direct", item |-> 0, auto |-> FALSE]

\* a record written by an earlier session and loaded at start (line 213)
OldRecord == [strategy |-> "old", item |-> 0, auto |-> FALSE]

DirectCount == Cardinality({i \in 1..Len(history) : history[i] = DirectRecord})

\* POST /api/publish, lines 781-783: the handler's posts touch only its own
\* results object, then the record is pushed and the log is capped
DirectPublish ==
    /\ DirectCount < MaxDirect
    /\ history' = CapHistory(Append(history, DirectRecord))
    /\ UNCHANGED <<items, queue, disk, settings, tz, now, threads, createdLog,
                   approved, forced, tickMade, payVars, gateVars, scheduler>>

\* a minute passes
AdvanceClock ==
    /\ now < MaxTime
    /\ now' = now + 1
    /\ UNCHANGED <<items, queue, disk, history, settings, tz, threads, createdLog,
                   approved, forced, tickMade, payVars, gateVars, scheduler>>

\* a minute passes, over the longer horizon of the retry specifications
TimePasses ==
    /\ now < MaxRetryTime
    /\ now' = now + 1
    /\ UNCHANGED <<items, queue, disk, history, settings, tz, threads, createdLog,
                   approved, forced, tickMade, payVars, gateVars, scheduler>>

\* lines 31-36: let schedulerInterval = null, schedulerRunning = false, with
\* the timers setInterval has created and clearInterval has not cleared
\* (interval 0 = null)
SchedulerStopped ==
    [interval |-> 0, running |-> FALSE, timers |-> {}, created |-> 0, requests |-> 0]

\* line 1006: the scheduler as the start at the end of the module leaves it
SchedulerStarted ==
    [interval |-> 1, running |-> TRUE, timers |-> {1}, created |-> 1, requests |-> 0]

\* the per-platform configurations the model starts from
Modes(discord, twitter, devto, hn) ==
    [p \in Platforms |-> IF p = "discord" THEN discord
                         ELSE IF p = "twitter" THEN twitter
                         ELSE IF p = "devto" THEN devto ELSE hn]

ModeChoices ==
    {Modes("auto", "auto", "off", "manual"),
     Modes("manual", "manual", "auto", "manual"),
     Modes("auto", "off", "off", "off"),
     Modes("off", "off", "off", "off")}

DefaultSchedule == <<[strategy |-> "daily-stats", time |-> 0]>>

SettingsChoices ==
    [modes : ModeChoices, retryMax : {1}, retryDelays : {<<1, 2>>},
     schedule : {DefaultSchedule}]

InitQueue ==
    /\ items = <<>>
    /\ queue = <<>>
    /\ disk = <<>>
    /\ history = <<>>
    /\ settings \in SettingsChoices
    /\ now = 0
    /\ tz = 0
    /\ threads = [t \in Threads |-> IdleThread]
    /\ createdLog = <<>>
    /\ approved = {}
    /\ forced = 0
    /\ tickMade = {}
    /\ scheduler = SchedulerStarted

\* ------------------------------------------------ approval gate (telegram.js, main)
\* the texts an update's message may carry
Texts == {"/approve", " OK ", "/reject", "No", "approve", ""}

\* (msg.text || '').trim().toLowerCase()
Normalize(text) ==
    IF text = " OK " THEN "ok" ELSE IF text = "No" THEN "no" ELSE text

ApproveWords == {"/approve", "ok", "go"}

RejectWords == {"/reject", "no", "skip"}

\* an update: without a message, or a message of the admin chat or another
Updates ==
    [hasMsg : {FALSE}, fromAdmin : {FALSE}, text : {""}]
        \cup [hasMsg : {TRUE}, fromAdmin : BOOLEAN, text : Texts]

\* the result array of one getUpdates response
RECURSIVE SeqsUpTo(_, _)
SeqsUpTo(S, n) ==
    IF n = 0 THEN {<<>>}
    ELSE LET shorter == SeqsUpTo(S, n - 1)
         IN  shorter \cup {Append(q, x) : q \in {r \in shorter : Len(r) = n - 1}, x \in S}

Responses == SeqsUpTo(Updates, MaxUpdates)

\* lines 124-144: what one update makes the gate answer ("" = keep polling)
VerdictAnyChat(u) ==
    IF ~u.hasMsg THEN ""
    ELSE IF Normalize(u.text) \in ApproveWords THEN "approved"
    ELSE IF Normalize(u.text) \in RejectWords THEN "rejected"
    ELSE ""

Verdict(u) ==
    IF ~u.hasMsg \/ ~u.fromAdmin THEN ""
    ELSE IF Normalize(u.text) \in ApproveWords THEN "approved"
    ELSE IF Normalize(u.text) \in RejectWords THEN "rejected"
    ELSE ""

RunModes == {"preview", "auto", "skip", "gate"}

IdleGate ==
    [pc |-> "idle", mode |-> "gate", elapsed |-> 0, lastUpdateId |-> 0,
     pending |-> "", approval |-> "", gateCalled |-> FALSE,
     qualified |-> FALSE, publishAttempted |-> FALSE, batch |-> <<>>]

\* main, lines 175-182: after the approval is known
AfterGatePublishAlways(g, approval) ==
    [g EXCEPT !.approval = approval, !.pc = "publishAll",
              !.publishAttempted = TRUE]

AfterGate(g, approval) ==
    IF approval \in {"rejected", "timeout"}
    THEN [g EXCEPT !.approval = approval, !.pc = "exit"]
    ELSE [g EXCEPT !.approval = approval, !.pc = "publishAll",
                   !.publishAttempted = TRUE]

\* line 113: the loop condition Date.now() - start < timeoutMs
LoopTop(g) ==
    IF g.elapsed < GateTimeout THEN [g EXCEPT !.pc = "sleep"]
    ELSE AfterGate(g, "timeout")

\* lines 121-145: the loop over the updates of one response
RECURSIVE ProcessUpdates(_, _)
ProcessUpdates(g, result) ==
    IF result = <<>> THEN LoopTop(g)
    ELSE LET u == Head(result)
             seen == [g EXCEPT !.lastUpdateId = g.lastUpdateId + 1]
         IN  IF Verdict(u) = "" THEN ProcessUpdates(seen, Tail(result))
             ELSE [seen EXCEPT !.pc = "ack", !.pending = Verdict(u),
                               !.qualified = TRUE]

\* lines 99-107: waitForApproval entered
GateEntry(g) ==
    IF ~telegramEnabled THEN AfterGate([g EXCEPT !.gateCalled = TRUE], "auto")
    ELSE [g EXCEPT !.gateCalled = TRUE, !.pc = "initFetch", !.elapsed = 0,
                   !.lastUpdateId = 0]

GateFrame == UNCHANGED <<telegramEnabled, payVars, queueVars>>

\* main, lines 125-166: up to the await of sendPreview
MainStart ==
    /\ gate.pc = "idle"
    /\ \E mode \in RunModes :
         gate' = [gate EXCEPT !.mode = mode,
                              !.pc = IF mode = "preview" THEN "exit"
                                     ELSE "sendPreview"]
    /\ GateFrame

\* main, lines 166-173: the preview was sent (or skipped)
PreviewSent ==
    /\ gate.pc = "sendPreview"
    /\ gate' = IF gate.mode \in {"auto", "skip"} THEN AfterGate(gate, "approved")
               ELSE GateEntry(gate)
    /\ GateFrame

\* sendPreview's fetch rejected: main rejects (main, line 217)
PreviewThrows ==
    /\ gate.pc = "sendPreview"
    /\ telegramEnabled
    /\ gate' = [gate EXCEPT !.pc = "crashed"]
    /\ GateFrame

\* lines 107-113: the first getUpdates answered
InitFetchReturns ==
    /\ gate.pc = "initFetch"
    /\ \E ok \in BOOLEAN, n \in 0..1 :
         gate' = LoopTop([gate EXCEPT !.lastUpdateId = IF ok /\ n > 0 THEN 1 ELSE 0])
    /\ GateFrame

\* line 114: the 3 s sleep is over
SleepDone ==
    /\ gate.pc = "sleep"
    /\ gate' = [gate EXCEPT !.pc = "poll", !.elapsed = gate.elapsed + 1]
    /\ GateFrame

\* lines 116-146: a poll answered, after dt more time
PollReturns ==
    /\ gate.pc = "poll"
    /\ \E ok \in BOOLEAN, result \in Responses, dt \in 0..1 :
         LET g == [gate EXCEPT !.elapsed = gate.elapsed + dt]
         IN  gate' = IF ~ok \/ result = <<>> THEN LoopTop([g EXCEPT !.batch = <<>>])
                     ELSE ProcessUpdates([g EXCEPT !.batch = result], result)
    /\ GateFrame

\* a getUpdates request or its json() rejected: waitForApproval rejects
PollThrows ==
    /\ gate.pc \in {"initFetch", "poll"}
    /\ gate' = [gate EXCEPT !.pc = "crashed"]
    /\ GateFrame

\* lines 129-134, 138-143: the acknowledgement was sent, the gate returns
AckReturns ==
    /\ gate.pc = "ack"
    /\ gate' = AfterGate(gate, gate.pending)
    /\ GateFrame

AckThrows ==
    /\ gate.pc = "ack"
    /\ gate' = [gate EXCEPT !.pc = "crashed"]
    /\ GateFrame

\* main, lines 182-214: publishAll and the report are over
PublishDone ==
    /\ gate.pc = "publishAll"
    /\ gate' = [gate EXCEPT !.pc = "done"]
    /\ GateFrame

InitGate ==
    /\ telegramEnabled \in BOOLEAN
    /\ gate = IdleGate

\* the command-line agent is not running
GateAtRest ==
    /\ InitGate
    /\ telegramEnabled

InitPay ==
    /\ sessionSpending = 0
    /\ payments = <<>>
    /\ account = FALSE
    /\ hasKey \in BOOLEAN
    /\ maxBudget = MaxBudget
    /\ call = [c \in Calls |-> IdleCall]
    /\ invocations = 0
    /\ txCount = 0

\* the ledger under any configured budget (MAX_BUDGET_USDC)
InitPayAnyBudget ==
    /\ sessionSpending = 0
    /\ payments = <<>>
    /\ account = FALSE
    /\ hasKey \in BOOLEAN
    /\ maxBudget \in 0..MaxBudget
    /\ call = [c \in Calls |-> IdleCall]
    /\ invocations = 0
    /\ txCount = 0

Init == InitPay /\ InitQueue /\ InitGate

\* the queue at rest under one configuration, for the payment specifications
QueueAtRest ==
    /\ InitQueue
    /\ settings.modes = Modes("off", "off", "off", "off")

\* the ledger at rest, for the queue specification
LedgerAtRest == InitPay /\ hasKey

\* the program after construction, nothing published yet
InitLedger == InitPay /\ QueueAtRest /\ GateAtRest

\* the program after construction, nothing paid yet
InitScheduler == LedgerAtRest /\ InitQueue /\ GateAtRest

NextPay ==
    \E c \in Calls :
        \/ StartCall(c)
        \/ FirstFetchFails(c)
        \/ FirstResponseNormal(c)
        \/ FirstResponse402(c)
        \/ Process402(c)
        \/ SubmitFails(c)
        \/ SubmitOk(c)
        \/ ReceiptTimeout(c)
        \/ ReceiptArrives(c)
        \/ RetryFetchFails(c)
        \/ RetryResponse(c)
        \/ Return(c)

\* callApi invocations in flight together
SpecPay == InitLedger /\ [][NextPay]_vars

NoneInFlight == \A c \in Calls : call[c].pc \in {"idle", "done"}

\* callApi invocations strictly one after another
NextPaySeq ==
    \E c \in Calls :
        \/ NoneInFlight /\ StartCall(c)
        \/ FirstFetchFails(c)
        \/ FirstResponseNormal(c)
        \/ FirstResponse402(c)
        \/ Process402(c)
        \/ SubmitFails(c)
        \/ SubmitOk(c)
        \/ ReceiptTimeout(c)
        \/ ReceiptArrives(c)
        \/ RetryFetchFails(c)
        \/ RetryResponse(c)
        \/ Return(c)

SpecPaySeq == InitLedger /\ [][NextPaySeq]_vars

\* the scheduler, the queue routes and the clock
NextQueue ==
    \/ \E t \in Threads :
          \/ TickStart(t)
          \/ RunNow(t)
          \/ StrategyOk(t)
          \/ StrategyThrows(t)
          \/ PostDone(t)
          \/ ReportDone(t)
          \/ PreviewDone(t)
          \/ \E id \in 1..Len(items) : Approve(t, id)
    \/ \E id \in 1..Len(items) : ForcedRetry(id)
    \/ \E id \in 1..Len(items) : Delete(id)
    \/ AdvanceClock

SpecQueue == InitScheduler /\ [][NextQueue]_vars

\* callApi invocations in flight together, under any configured budget
InitLedgerAnyBudget == InitPayAnyBudget /\ QueueAtRest /\ GateAtRest

SpecPayAnyBudget == InitLedgerAnyBudget /\ [][NextPay]_vars

\* the dashboard started on an empty or on a full history file
LoadedHistories == {<<>>, [i \in 1..HistoryCap |-> OldRecord]}

InitLoaded ==
    /\ LedgerAtRest
    /\ GateAtRest
    /\ items = <<>>
    /\ queue = <<>>
    /\ disk = <<>>
    /\ history \in LoadedHistories
    /\ settings \in {c \in SettingsChoices :
                        c.modes = Modes("auto", "auto", "off", "manual")}
    /\ now = 0
    /\ tz = 0
    /\ threads = [t \in Threads |-> IdleThread]
    /\ createdLog = <<>>
    /\ approved = {}
    /\ forced = 0
    /\ tickMade = {}
    /\ scheduler = SchedulerStarted

\* the scheduler and direct publish requests
NextHistory ==
    \/ \E t \in Threads :
          \/ TickStart(t)
          \/ StrategyOk(t)
          \/ PostDone(t)
          \/ ReportDone(t)
          \/ PreviewDone(t)
    \/ DirectPublish
    \/ AdvanceClock

SpecHistory == InitLoaded /\ [][NextHistory]_vars

\* the scheduler configurations of the retry specifications: every retryMax
\* from 0, a delay list that saturates at once and one that grows first
RetrySettings ==
    [modes : {Modes("auto", "off", "off", "off")}, retryMax : 0..MaxRetryMax,
     retryDelays : {<<2>>, <<1, 2>>}, schedule : {DefaultSchedule}]

InitRetry ==
    /\ LedgerAtRest
    /\ GateAtRest
    /\ items = <<>>
    /\ queue = <<>>
    /\ disk = <<>>
    /\ history = <<>>
    /\ settings \in RetrySettings
    /\ now = 0
    /\ tz = 0
    /\ threads = [t \in Threads |-> IdleThread]
    /\ createdLog = <<>>
    /\ approved = {}
    /\ forced = 0
    /\ tickMade = {}
    /\ scheduler = SchedulerStarted

\* the scheduler alone: ticks, publish passes and retry sweeps, no operator
NextRetry ==
    \/ \E t \in Threads :
          \/ TickStart(t)
          \/ StrategyOk(t)
          \/ PostDone(t)
          \/ ReportDone(t)
    \/ TimePasses

SpecRetry == InitRetry /\ [][NextRetry]_vars

\* a queued item waits for a retry date that has not come
RetryAhead ==
    \E i \in 1..Len(queue) :
        /\ items[queue[i]].status = "retry"
        /\ items[queue[i]].nextRetry > now

\* time passes towards the next retry date
TimeToRetry ==
    /\ RetryAhead
    /\ now' = now + 1
    /\ UNCHANGED <<items, queue, disk, history, settings, tz, threads, createdLog,
                   approved, forced, tickMade, payVars, gateVars, scheduler>>

\* the configurations of the progress specification: one retry, under both
\* delay lists
LiveSettings ==
    {c \in RetrySettings : c.retryMax = 1}

InitRetryLive ==
    /\ InitRetry
    /\ settings \in LiveSettings

NextRetryLive ==
    \/ \E t \in Threads :
          \/ TickStart(t)
          \/ StrategyOk(t)
          \/ StrategyThrows(t)
          \/ PostDone(t)
          \/ ReportDone(t)
    \/ TimeToRetry

\* a free activation slot and a queued item whose retry date has come: the
\* next call of schedulerTick starts a pass
TickDue(t) ==
    /\ Free(t)
    /\ \E i \in 1..Len(queue) : RetryDue(items[queue[i]])

\* setInterval keeps calling schedulerTick, and the strategy, every publisher
\* and the report settle: weak fairness of each of these steps, with the
\* enabling condition written as the position of the activation, and weak
\* fairness of the clock
SpecRetryLive ==
    /\ InitRetryLive
    /\ [][NextRetryLive]_vars
    /\ WF_vars(TimeToRetry)
    /\ \A t \in Threads :
          /\ []<>(~TickDue(t)) \/ []<><<TickStart(t)>>_vars
          /\ []<>(threads[t].pc # "strategy")
                \/ []<><<StrategyOk(t) \/ StrategyThrows(t)>>_vars
          /\ []<>(threads[t].pc # "post") \/ []<><<PostDone(t)>>_vars
          /\ []<>(threads[t].pc # "report") \/ []<><<ReportDone(t)>>_vars

\* schedules with two entries of one strategy: at different times of the
\* day, and at the same time
TwoEntries ==
    {<<[strategy |-> "daily-stats", time |-> 0], [strategy |-> "daily-stats", time |-> 1]>>,
     <<[strategy |-> "daily-stats", time |-> 0], [strategy |-> "daily-stats", time |-> 0]>>}

ScheduleSettings ==
    [modes : {Modes("manual", "off", "off", "off"), Modes("auto", "off", "off", "off")},
     retryMax : {1}, retryDelays : {<<1, 2>>}, schedule : TwoEntries]

InitSchedule ==
    /\ LedgerAtRest
    /\ GateAtRest
    /\ items = <<>>
    /\ queue = <<>>
    /\ disk = <<>>
    /\ history = <<>>
    /\ settings \in ScheduleSettings
    /\ now = 0
    /\ tz \in 0..MaxZone
    /\ threads = [t \in Threads |-> IdleThread]
    /\ createdLog = <<>>
    /\ approved = {}
    /\ forced = 0
    /\ tickMade = {}
    /\ scheduler = SchedulerStarted

\* a minute passes, into the next day at most
DayPasses ==
    /\ now < MaxScheduleTime
    /\ now' = now + 1
    /\ UNCHANGED <<items, queue, disk, history, settings, tz, threads, createdLog,
                   approved, forced, tickMade, payVars, gateVars, scheduler>>

\* ticks and run-now requests over several days
NextSchedule ==
    \/ \E t \in Threads :
          \/ TickStart(t)
          \/ RunNow(t)
          \/ StrategyOk(t)
          \/ StrategyThrows(t)
          \/ PostDone(t)
          \/ ReportDone(t)
          \/ PreviewDone(t)
    \/ DayPasses

SpecSchedule == InitSchedule /\ [][NextSchedule]_vars

\* one platform, published on approval, for the executions of the strategy
ContentSettings ==
    [modes : {Modes("manual", "off", "off", "off")},
     retryMax : {1}, retryDelays : {<<1, 2>>}, schedule : {DefaultSchedule}]

InitContent ==
    /\ InitPay
    /\ GateAtRest
    /\ items = <<>>
    /\ queue = <<>>
    /\ disk = <<>>
    /\ history = <<>>
    /\ settings \in ContentSettings
    /\ now = 0
    /\ tz = 0
    /\ threads = [t \in Threads |-> IdleThread]
    /\ createdLog = <<>>
    /\ approved = {}
    /\ forced = 0
    /\ tickMade = {}
    /\ scheduler = SchedulerStarted

\* scheduled executions of the strategy with their paid calls
NextContent ==
    \/ \E t \in Threads :
          \/ TickStart(t)
          \/ StrategyThrows(t)
          \/ StatsDone(t)
          \/ TextDone(t)
          \/ ImageDone(t)
          \/ PreviewDone(t)
    \/ \E c \in Calls :
          \/ FirstFetchFails(c)
          \/ FirstResponseNormal(c)
          \/ FirstResponse402(c)
          \/ Process402(c)
          \/ SubmitFails(c)
          \/ SubmitOk(c)
          \/ ReceiptTimeout(c)
          \/ ReceiptArrives(c)
          \/ RetryFetchFails(c)
          \/ RetryResponse(c)

SpecContent == InitContent /\ [][NextContent]_vars

\* the command-line agent
InitAgent == LedgerAtRest /\ QueueAtRest /\ InitGate

NextGate ==
    \/ MainStart
    \/ PreviewSent
    \/ PreviewThrows
    \/ InitFetchReturns
    \/ SleepDone
    \/ PollReturns
    \/ PollThrows
    \/ AckReturns
    \/ AckThrows
    \/ PublishDone

SpecGate == InitAgent /\ [][NextGate]_vars

\* every request of the gate is answered or fails, and main runs on
SpecGateLive == SpecGate /\ WF_vars(NextGate)

\* ------------------------------------- the budget ceiling changed at runtime
\* getSpending(): the spending snapshot the status route reports
getSpending == [spent |-> sessionSpending, remaining |-> maxBudget - sessionSpending]

\* POST /api/settings: saveSettings(merged) runs applySettingsToConfig, which
\* assigns config.maxBudget = settings.wallet.maxBudget; the request changes
\* the wallet section only
SaveSettings ==
    /\ \E b \in 0..MaxBudget : maxBudget' = b
    /\ UNCHANGED <<sessionSpending, payments, account, hasKey, call, invocations, txCount>>
    /\ UNCHANGED <<queueVars, gateVars>>

\* callApi invocations one after another and settings requests between their
\* steps
NextBudget ==
    \/ \E c \in Calls :
          \/ NoneInFlight /\ StartCall(c)
          \/ FirstFetchFails(c)
          \/ FirstResponseNormal(c)
          \/ FirstResponse402(c)
          \/ Process402(c)
          \/ SubmitFails(c)
          \/ SubmitOk(c)
          \/ ReceiptTimeout(c)
          \/ ReceiptArrives(c)
          \/ RetryFetchFails(c)
          \/ RetryResponse(c)
          \/ Return(c)
    \/ SaveSettings

SpecBudget == InitLedger /\ [][NextBudget]_vars

\* ------------------------------------------------- the queue after a restart
\* an item as loadQueue() reads it from the file a previous run wrote: saved
\* right after its creation (pending) or at the start of its first publish
\* pass (publishing), the day before or the same day
LoadedItem(id, status, createdAt) ==
    [createQueueItem(id, "daily-stats", {"discord"}, TRUE, createdAt)
        EXCEPT !.status = status]

\* an item the previous run left in retry after a failed post, due in a minute
LoadedRetryItem(id) ==
    [createQueueItem(id, "daily-stats", {"discord"}, TRUE, 0)
        EXCEPT !.status = "retry", !.retryCount = 1, !.nextRetry = 1,
               !.results = PutResult(NoResults, "discord", FALSE)]

LoadedQueues ==
    {<<LoadedItem(1, s, c)>> : s \in {"pending", "publishing"}, c \in {-1, 0}}
    \cup {<<LoadedItem(1, s, 0), LoadedRetryItem(2)>> : s \in {"pending", "publishing"}}

\* lines 995-1006: the module is loaded again, loadQueue() fills the queue
\* from the file and the scheduler is started
InitRestart ==
    /\ LedgerAtRest
    /\ GateAtRest
    /\ items \in LoadedQueues
    /\ queue = [i \in 1..Len(items) |-> i]
    /\ disk = Snapshot(items, queue)
    /\ history = <<>>
    /\ settings \in LiveSettings
    /\ now = 0
    /\ tz = 0
    /\ threads = [t \in Threads |-> IdleThread]
    /\ createdLog = <<>>
    /\ approved = {}
    /\ forced = 0
    /\ tickMade = {}
    /\ scheduler = SchedulerStarted

\* the scheduler after the restart, with the fairness of the progress
\* specification: setInterval keeps calling schedulerTick and every awaited
\* call settles
SpecRestart ==
    /\ InitRestart
    /\ [][NextRetryLive]_vars
    /\ WF_vars(TimeToRetry)
    /\ \A t \in Threads :
          /\ []<>(~TickDue(t)) \/ []<><<TickStart(t)>>_vars
          /\ []<>(threads[t].pc # "strategy")
                \/ []<><<StrategyOk(t) \/ StrategyThrows(t)>>_vars
          /\ []<>(threads[t].pc # "post") \/ []<><<PostDone(t)>>_vars
          /\ []<>(threads[t].pc # "report") \/ []<><<ReportDone(t)>>_vars

\* --------------------------------------------- scheduler start and stop
\* line 273: if (schedulerInterval) return
AlreadyStartedNever(s) == FALSE

AlreadyStarted(s) == s.interval # 0

\* POST /api/scheduler/start, and line 1006: startScheduler() up to the first
\* await of the schedulerTick() it calls (lines 272-278); the route then saves
\* the settings with scheduler.enabled = true, a flag read at line 1005 only
StartScheduler(t) ==
    /\ scheduler.requests < MaxRequests
    /\ IF AlreadyStarted(scheduler)
       THEN /\ scheduler' = [scheduler EXCEPT !.requests = @ + 1]
            /\ UNCHANGED <<items, queue, disk, history, threads, createdLog, tickMade>>
       ELSE /\ Free(t)
            /\ scheduler' = [interval |-> scheduler.created + 1,
                             running |-> TRUE,
                             timers |-> scheduler.timers \cup {scheduler.created + 1},
                             created |-> scheduler.created + 1,
                             requests |-> scheduler.requests + 1]
            /\ Commit(t, TickLoop([StateOf(t) EXCEPT !.th.kind = "tick",
                                                     !.th.tickNow = now,
                                                     !.th.entries = settings.schedule]))
    /\ UNCHANGED <<settings, tz, now, approved, forced, payVars, gateVars>>

\* POST /api/scheduler/stop: stopScheduler() (lines 280-285); clearInterval
\* clears the timer schedulerInterval refers to
StopScheduler ==
    /\ scheduler.requests < MaxRequests
    /\ scheduler' = [scheduler EXCEPT !.timers = @ \ {scheduler.interval},
                                      !.interval = 0,
                                      !.running = FALSE,
                                      !.requests = @ + 1]
    /\ UNCHANGED <<items, queue, disk, history, settings, tz, now, threads,
                   createdLog, approved, forced, tickMade, payVars, gateVars>>

\* a live timer calls schedulerTick
TimerTick(t) ==
    /\ scheduler.timers # {}
    /\ TickStart(t)

\* the dashboard started with scheduler.enabled = false
InitTimer ==
    /\ LedgerAtRest
    /\ GateAtRest
    /\ items = <<>>
    /\ queue = <<>>
    /\ disk = <<>>
    /\ history = <<>>
    /\ settings \in {c \in SettingsChoices : c.modes = Modes("auto", "off", "off", "off")}
    /\ now = 0
    /\ tz = 0
    /\ threads = [t \in Threads |-> IdleThread]
    /\ createdLog = <<>>
    /\ approved = {}
    /\ forced = 0
    /\ tickMade = {}
    /\ scheduler = SchedulerStopped

\* start and stop requests, the timer's ticks and their publish passes
NextTimer ==
    \/ \E t \in Threads :
          \/ StartScheduler(t)
          \/ TimerTick(t)
          \/ StrategyOk(t)
          \/ StrategyThrows(t)
          \/ PostDone(t)
          \/ ReportDone(t)
    \/ StopScheduler
    \/ AdvanceClock

SpecTimer == InitTimer /\ [][NextTimer]_vars

\* ================================================================= claims
RECURSIVE SumAmounts(_)
SumAmounts(ps) ==
    IF ps = <<>> THEN 0 ELSE ps[1].amount + SumAmounts(Tail(ps))

\* C1: with callApi invocations strictly one after another and maxBudget
\* fixed, sessionSpent equals the sum of the amounts of the recorded Payments
\* and never exceeds maxBudget, in particular after each settled payment.
C1_BudgetInvariantSequential ==
    /\ sessionSpending = SumAmounts(payments)
    /\ sessionSpending <= maxBudget

\* two payments settled one after the other fill the budget exactly
C1_Witness ==
    /\ Len(payments) = 2
    /\ sessionSpending = maxBudget
    /\ \E c \in Calls : call[c].paysBy = 1 /\ call[c].pc = "retry"

\* C2: with callApi invocations in flight together, sessionSpent <= maxBudget
\* in every reachable state.
C2_BudgetNeverExceededConcurrent == sessionSpending <= maxBudget

\* C3: a 402 quoting a cost with sessionSpent + cost > maxBudget fails with
\* the budget error, submits no transfer, records no Payment and leaves
\* sessionSpent unchanged; with sessionSpent + cost = maxBudget exactly the
\* budget check does not reject the call.
C3_BudgetCheck ==
    [][\A c \in Calls :
         LET b == call[c].body IN
         (/\ call[c].pc = "body"
          /\ call'[c].pc # "body"
          /\ b.json /\ b.recipient /\ b.amount.kind = "decimal")
         =>
         /\ (sessionSpending + b.amount.val > maxBudget) =>
               /\ call'[c].outcome = "budget"
               /\ call'[c].pc = "done"
               /\ call'[c].transfers = 0
               /\ txCount' = txCount
               /\ payments' = payments
               /\ sessionSpending' = sessionSpending
         /\ (sessionSpending + b.amount.val = maxBudget) =>
               call'[c].outcome # "budget"
    ]_vars

\* one call was rejected over budget after an earlier payment, while another
\* call that reaches the budget exactly has passed the check
C3_Witness ==
    \E c, d \in Calls :
        /\ call[c].outcome = "budget"
        /\ sessionSpending > 0
        /\ call[d].pc = "receipt"
        /\ sessionSpending + call[d].cost.val = maxBudget

ListedFailures ==
    {"not_json", "malformed", "no_wallet", "submit_error", "receipt_failed",
     "receipt_timeout"}

\* C4: an invocation that ends in failure (malformed 402 body, missing wallet
\* secret, transfer submission error, receipt with non-success status, receipt
\* wait timeout) has added nothing to sessionSpent and appended no Payment,
\* and the step in which it fails leaves the ledger as it is.
C4_FailureLeavesLedger ==
    [][\A c \in Calls :
         (call[c].outcome = "none" /\ call'[c].outcome \in ListedFailures)
         =>
         /\ sessionSpending' = sessionSpending
         /\ payments' = payments
         /\ call'[c].spentBy = 0
         /\ call'[c].paysBy = 0
    ]_vars

\* a settlement failed on its receipt while the ledger already holds a payment
C4_Witness ==
    \E c \in Calls :
        /\ call[c].outcome = "receipt_failed"
        /\ call[c].cost.val > 0
        /\ Len(payments) = 1

\* C5: on a confirmed settlement sessionSpent grows by exactly cost and
\* exactly one Payment with the settlement's txHash is appended in one step;
\* the retry request is not issued before that step and carries the same
\* txHash in its proof header; nothing else changes the ledger.
C5_CommitThenRetry ==
    [][LET commits(c) ==
              /\ call[c].pc = "receipt"
              /\ sessionSpending' = sessionSpending + call[c].cost.val
              /\ payments' = Append(payments, [amount |-> call[c].cost.val,
                                               txHash |-> call[c].txHash])
              /\ call[c].txHash # 0
       IN
       /\ \A c \in Calls :
            /\ (call[c].pc = "receipt" /\ call'[c].pc = "retry") =>
                  /\ commits(c)
                  /\ call[c].http = 1
                  /\ call'[c].http = 2
                  /\ call'[c].proof = call[c].txHash
            /\ (call'[c].http = 2 /\ call[c].http # 2) => commits(c)
       /\ (sessionSpending' # sessionSpending \/ payments' # payments) =>
            \E c \in Calls : commits(c) /\ call'[c].pc = "retry"
    ]_vars

\* a settled call waits for the answer to its proof-carrying retry
C5_Witness ==
    \E c \in Calls :
        /\ call[c].pc = "retry"
        /\ call[c].proof = call[c].txHash
        /\ call[c].cost.val = 1
        /\ sessionSpending = 1
        /\ payments = <<[amount |-> 1, txHash |-> call[c].txHash]>>

\* C6: one invocation submits at most one transfer and issues at most two
\* HTTP requests; a first response that is not 402 means no transfer and an
\* untouched ledger; a failed or timed-out settlement is not resubmitted; a
\* 402 on the retry is returned as the result without a second payment.
C6_AtMostOneTransfer ==
    \A c \in Calls :
        /\ call[c].transfers <= 1
        /\ call[c].http <= 2
        /\ call[c].paysBy <= 1
        /\ call[c].status1 = 200 =>
              /\ call[c].transfers = 0
              /\ call[c].http = 1
              /\ call[c].spentBy = 0 /\ call[c].paysBy = 0
        /\ call[c].outcome \in {"submit_error", "receipt_failed", "receipt_timeout"} =>
              /\ call[c].pc = "done"
              /\ call[c].transfers = 1
              /\ call[c].http = 1
        /\ call[c].status2 = 402 =>
              /\ call[c].pc = "done"
              /\ call[c].outcome = "ok"
              /\ call[c].transfers = 1
              /\ call[c].paysBy = 1

\* the proof-carrying retry was itself answered with 402
C6_Witness ==
    \E c \in Calls :
        /\ call[c].status2 = 402
        /\ call[c].outcome = "ok"
        /\ call[c].transfers = 1

\* the items of the in-memory queue
QueueIds == {queue[i] : i \in 1..Len(queue)}

\* C7: every QueueItem is created with status pending when autoPublish is
\* true and awaiting_approval when it is false, with retryCount 0, no
\* nextRetryAt, no publishedAt and empty perPlatformResults.
C7_CreatedItem ==
    /\ Len(createdLog) = Len(items)
    /\ \A i \in 1..Len(createdLog) :
         LET it == createdLog[i] IN
         /\ it.id = i
         /\ it.status = (IF it.autoPublish THEN "pending" ELSE "awaiting_approval")
         /\ it.retryCount = 0
         /\ it.nextRetry = NoTime
         /\ it.publishedAt = NoTime
         /\ it.results = NoResults
         /\ (i \in QueueIds /\ ~it.autoPublish /\ i \notin approved /\ forced = 0)
               => items[i] = it

\* one strategy execution created an auto item and a manual item
C7_Witness ==
    /\ Len(createdLog) = 2
    /\ createdLog[1].autoPublish
    /\ ~createdLog[2].autoPublish
    /\ items[2].status = "awaiting_approval"

\* C8: an item created with autoPublish=false that was never approved does
\* not enter publishing or any status after it (published, partial, failed),
\* whatever the operator and the scheduler do.
C8_NoPublishWithoutApproval ==
    \A id \in QueueIds :
        (~items[id].autoPublish /\ id \notin approved)
        => items[id].status \notin {"publishing", "published", "partial", "failed"}

C10_RetryOnlyFailed ==
    [][\A t \in Threads :
         LET th == threads'[t]
             inPass == th.ret = "sweep" /\ th.pc \in {"post", "report"} /\ th.prevDue
             started == /\ threads[t] # th
                        /\ threads[t].ret # "sweep" \/ threads[t].pc = "report"
         IN  inPass =>
             /\ th.attempted \subseteq th.prevResults.failed
             /\ th.attempted \cap th.prevResults.ok = {}
             /\ th.pc = "report" => th.attempted = th.prevResults.failed
             /\ started =>
                  /\ items'[th.item].platforms = th.prevResults.failed
                  /\ (items'[th.item].results.ok \cup items'[th.item].results.failed)
                        \subseteq th.attempted
    ]_vars

\* a forced retry of a partial item: the sweep's pass attempted the failed
\* platform only
C10_Witness ==
    \E t \in Threads :
        /\ threads[t].ret = "sweep"
        /\ threads[t].pc = "report"
        /\ threads[t].prevDue
        /\ threads[t].prevResults.ok # {}
        /\ threads[t].attempted = threads[t].prevResults.failed
        /\ threads[t].attempted # {}

\* C11: scheduler ticks of one calendar day that match the same entry leave
\* one QueueItem for the strategy. One execution pushes at most one auto item
\* and one manual item, so already two tick-made items of the same strategy,
\* day and kind mean the strategy was executed twice.
C11_OneItemPerStrategyPerDay ==
    \A i \in tickMade : \A j \in tickMade :
        (/\ createdLog[i].strategy = createdLog[j].strategy
         /\ DateOf(createdLog[i].createdAt) = DateOf(createdLog[j].createdAt)
         /\ createdLog[i].autoPublish = createdLog[j].autoPublish)
        => i = j

GateReturned == gate.gateCalled /\ gate.approval # ""

\* C12: a gate that saw no qualifying reply answers timeout, with the approval
\* channel enabled or not, and after an answer of timeout or rejected main
\* makes no publish attempt.
C12_TimeoutWithoutReply ==
    /\ (GateReturned /\ ~gate.qualified) => gate.approval = "timeout"
    /\ (GateReturned /\ gate.approval \in {"timeout", "rejected"})
          => ~gate.publishAttempted

\* C17: the value the gate returns is approved, rejected or timeout.
C17_GateAnswers ==
    GateReturned => gate.approval \in {"approved", "rejected", "timeout"}

\* every run of main that reaches the gate leaves it, by a return or by a
\* rejected request
GateTerminates ==
    (gate.pc \in {"initFetch", "sleep", "poll", "ack"})
        ~> (gate.pc \in {"exit", "publishAll", "done", "crashed"})

\* C18: on a 402 response the checks come in a fixed order. A body without
\* amount or recipient fails as malformed whatever the budget and the wallet;
\* an over-budget cost fails as budget-exceeded with the wallet secret still
\* unread; a missing secret fails as a configuration error; and in all three
\* cases no transfer is submitted.
C18_CheckOrder ==
    [][\A c \in Calls :
         (call[c].pc = "body" /\ call'[c].pc # "body" /\ call[c].body.json)
         =>
         LET b == call[c].body
             cost == ParseFloat(b.amount)
             missing == b.amount = Absent \/ ~b.recipient
             over == ~cost.nan /\ sessionSpending + cost.val > maxBudget
             noSecret == ~account /\ ~hasKey
             refused(kind) ==
                 /\ call'[c].pc = "done"
                 /\ call'[c].outcome = kind
                 /\ call'[c].transfers = call[c].transfers
                 /\ txCount' = txCount
                 /\ account' = account
         IN  /\ missing => refused("malformed")
             /\ (~missing /\ over) => refused("budget")
             /\ (~missing /\ ~over /\ noSecret) => refused("no_wallet")
    ]_vars

\* with no wallet secret set, one call was refused as malformed although its
\* quoted amount was over the budget, and another as over budget
C18_Witness ==
    /\ ~hasKey
    /\ ~account
    /\ \E c \in Calls, d \in Calls :
         /\ call[c].outcome = "malformed"
         /\ call[c].body.amount.kind = "decimal"
         /\ call[c].body.amount.val > maxBudget
         /\ call[d].outcome = "budget"

\* a step that ends a publish pass of thread t (line 449 pushes the record)
PassEnds(t) ==
    /\ Len(history') = Len(history) + 1
    /\ threads'[t] # threads[t]
    /\ threads'[t].pc = "report"

\* C13: in one publish pass every targeted platform is attempted, whatever
\* the other platforms' publishers returned or threw, and the pass reaches
\* its end.
C13_EveryTargetAttempted ==
    \A t \in Threads :
        threads[t].pc = "report" => threads[t].attempted = threads[t].targets

\* C14: at most one scheduler tick is in flight.
C14_NoOverlappingTicks ==
    Cardinality({t \in Threads : threads[t].kind = "tick"}) <= 1

\* C16: an id leaves the queue only in a step of the delete route; in every
\* other step the set of ids in the queue stays or grows.
C16_OnlyDeleteRemoves ==
    [][(~(QueueIds \subseteq QueueIds')) => \E id \in 1..Len(items) : Delete(id)]_vars

\* two items are queued, none was ever removed, after ticks, publish passes,
\* an approval and a forced retry
C16_Witness ==
    /\ Len(queue) = 2
    /\ Len(createdLog) = 2
    /\ approved # {}
    /\ forced > 0
    /\ Len(history) >= 2

\* C19: a pass ends in published only if it attempted a platform and every
\* platform targeted at its start has a recorded success.
C19_PublishedMeansAllSucceeded ==
    [][\A t \in Threads :
         (PassEnds(t) /\ items'[threads'[t].item].status = "published")
         => /\ threads'[t].attempted # {}
            /\ threads'[t].targets \subseteq items'[threads'[t].item].results.ok
    ]_vars

\* C20: at the end of a pass the platforms with a recorded result are the
\* platforms the pass targeted.
C20_ResultsCoverTargets ==
    [][\A t \in Threads :
         PassEnds(t)
         => LET r == items'[threads'[t].item].results
            IN  r.ok \cup r.failed = threads'[t].targets
    ]_vars

\* C15: the history log never holds more records than the cap, and a record
\* added to a full log evicts the oldest one.
C15_HistoryBounded ==
    Len(history) <= HistoryCap

\* C21: a pass that recorded failures only ends in retry exactly when the
\* item's retryCount before the pass is below the configured maxRetries, and
\* in failed otherwise, for every configured maxRetries from 0.
C21_RetryOrFailed ==
    [][\A t \in Threads :
         LET id == threads'[t].item
             r == items'[id].results
         IN  (PassEnds(t) /\ r.ok = {} /\ r.failed # {})
             => /\ items'[id].status = "retry"
                    <=> items[id].retryCount < settings.retryMax
                /\ items'[id].status = "failed"
                    <=> items[id].retryCount >= settings.retryMax
    ]_vars

\* C22: a pass that schedules a retry sets nextRetryAt to the current time
\* plus delays[min(retryCount, len(delays) - 1)], with retryCount as it was
\* before the pass, and adds exactly one to retryCount; the delay is never
\* more than the last configured value.
C22_RetryDelay ==
    [][\A t \in Threads :
         LET id == threads'[t].item
             d == settings.retryDelays
             rc == items[id].retryCount
             idx == IF rc < Len(d) - 1 THEN rc ELSE Len(d) - 1
         IN  (PassEnds(t) /\ items'[id].status = "retry")
             => /\ items'[id].nextRetry = now + d[idx + 1]
                /\ items'[id].nextRetry <= now + d[Len(d)]
                /\ items'[id].retryCount = rc + 1
    ]_vars

\* the second retry of an item under the one-element list [2] is scheduled:
\* the index min(1, 0) saturates at the last value
C22_Witness ==
    \E t \in Threads :
        /\ threads[t].pc = "report"
        /\ settings.retryDelays = <<2>>
        /\ settings.retryMax = 2
        /\ items[threads[t].item].status = "retry"
        /\ items[threads[t].item].retryCount = 2
        /\ items[threads[t].item].nextRetry = now + 2

PassesOf(id) == Cardinality({i \in 1..Len(history) : history[i].item = id})

\* C23: with the configuration constant and no forced retry, retryCount stays
\* within 0..maxRetries and an item undergoes at most 1 + maxRetries passes.
\* maxRetries is read here as the value the code compares against.
C23_BoundedRetries ==
    \A id \in 1..Len(items) :
        /\ items[id].retryCount >= 0
        /\ items[id].retryCount <= MaxRetriesOf(settings)
        /\ PassesOf(id) <= 1 + MaxRetriesOf(settings)

\* C24: every pass the retry sweep starts is on an item that is in status
\* retry with nextRetryAt elapsed at the moment the pass starts.
C24_SweepOnlyDue ==
    \A t \in Threads :
        (threads[t].ret = "sweep" /\ threads[t].pc \in {"post", "report"})
        => threads[t].prevDue

Settled(id) == items[id].status \in {"published", "partial", "failed"}

\* C30: with ticks firing, publishers returning, a non-empty delay list and no
\* operator, every item in publishing eventually is published, partial or
\* failed; every item in retry has a nextRetryAt and is eventually re-attempted.
C30_EventuallySettled ==
    /\ [](\A id \in 1..Len(items) :
            items[id].status = "retry" => items[id].nextRetry # NoTime)
    /\ \A id \in 1..MaxItems :
          /\ (id <= Len(items) /\ items[id].status = "publishing")
                ~> (id <= Len(items) /\ Settled(id))
          /\ (id <= Len(items) /\ items[id].status = "retry")
                ~> (id <= Len(items) /\ items[id].status = "publishing")

\* an item failed, waited for its retry date, was re-attempted and is settled
C30_Witness ==
    \E id \in 1..Len(items) :
        /\ Settled(id)
        /\ items[id].retryCount >= 1
        /\ PassesOf(id) >= 2
        /\ now >= items[id].nextRetry
        /\ \A t \in Threads : threads[t].pc = "idle"

\* the item a step appended, as the configuration prescribes it
MadeOne(platforms, autoPublish) ==
    /\ Len(items') = Len(items) + 1
    /\ items'[Len(items')].platforms = platforms
    /\ items'[Len(items')].autoPublish = autoPublish

\* C25: one strategy execution splits the enabled platforms into the auto
\* set and the manual set, disjoint and together all enabled platforms; it
\* creates one autoPublish item for the auto set if that set is non-empty
\* and, after that item's pass, one manual item for the manual set if that
\* set is non-empty; no other step creates an item, and no item ever names
\* a disabled platform.
C25_AutoManualPartition ==
    [][LET auto == {p \in Platforms : settings.modes[p] = "auto"}
           manual == {p \in Platforms : settings.modes[p] = "manual"}
           enabled == {p \in Platforms : settings.modes[p] # "off"}
           returned(t) == threads[t].pc = "strategy" /\ StrategyOk(t)
           autoDone(t) == /\ threads[t].pc = "report"
                          /\ threads[t].ret = "auto"
                          /\ ReportDone(t)
       IN  /\ auto \cap manual = {}
           /\ auto \cup manual = enabled
           /\ \A t \in Threads :
                /\ returned(t) =>
                      IF auto # {} THEN MadeOne(auto, TRUE)
                      ELSE IF manual # {} THEN MadeOne(manual, FALSE)
                      ELSE Len(items') = Len(items)
                /\ autoDone(t) =>
                      IF manual # {} THEN MadeOne(manual, FALSE)
                      ELSE Len(items') = Len(items)
           /\ Len(items') # Len(items)
                => \E t \in Threads : returned(t) \/ autoDone(t)
           /\ \A i \in 1..Len(items') : items'[i].platforms \subseteq enabled
    ]_vars

\* one execution made an auto item for discord and twitter, published it,
\* and then a manual item for hn; devto is disabled and in neither
C25_Witness ==
    /\ Len(items) = 2
    /\ items[1].autoPublish /\ createdLog[1].platforms = {"discord", "twitter"}
    /\ ~items[2].autoPublish /\ createdLog[2].platforms = {"hn"}
    /\ items[1].createdAt = items[2].createdAt
    /\ settings.modes["devto"] = "off"
    /\ Len(history) = 1

\* the day of the schedule a time falls on: now.getDay()
LocalDay(t) == LocalTime(t) \div DayLen

\* C27: a tick starts the strategy of a scheduled entry only if the queue
\* holds no item of that strategy created on the day of the entry, whoever
\* created the item and whatever the entry's time of day.
C27_OncePerDay ==
    [][\A t \in Threads :
         (/\ threads'[t].kind = "tick"
          /\ threads'[t].pc = "strategy"
          /\ threads'[t] # threads[t])
         => ~\E i \in 1..Len(queue) :
               /\ items[queue[i]].strategy = threads'[t].strategy
               /\ LocalDay(items[queue[i]].createdAt) = LocalDay(threads'[t].tickNow)
    ]_vars

\* the queued items due for a retry, in queue order
DueNow == SelectSeq(queue, LAMBDA id : RetryDue(items[id]))

\* thread t is a tick that has not reached processRetryQueue
Matching(t) ==
    /\ threads[t].kind = "tick"
    /\ threads[t].ret # "sweep"

\* after the step, thread t is still busy with the entries of the schedule
StillMatching(t) ==
    \/ threads'[t].pc \in {"strategy", "preview"}
    \/ threads'[t].ret = "auto"

\* an entry of the schedule that the tick of thread t has to execute
ToExecute(t, e) ==
    /\ TimeOfDay(LocalTime(threads[t].tickNow)) = e.time
    /\ ~\E i \in 1..Len(queue) :
          /\ items[queue[i]].strategy = e.strategy
          /\ DateOf(items[queue[i]].createdAt) = DateOf(threads[t].tickNow)

\* C26: a tick that is through with the entries of the schedule runs the
\* retry sweep, whether entries matched, were suppressed or threw: it starts
\* a pass on the first due item, or ends if none is due. A strategy that
\* throws creates no item, and the tick goes on to the next entry that
\* matches.
C26_SweepAfterMatching ==
    [][\A t \in Threads :
         /\ ((Matching(t) \/ (threads[t].pc = "idle" /\ threads'[t].kind = "tick"))
              /\ threads'[t] # threads[t]
              /\ ~StillMatching(t))
            => IF DueNow = <<>> THEN threads'[t] = IdleThread
               ELSE /\ threads'[t].ret = "sweep"
                    /\ threads'[t].item = Head(DueNow)
                    /\ threads'[t].sweep = Tail(DueNow)
                    /\ items'[Head(DueNow)].status = "publishing"
         /\ (threads[t].pc = "strategy" /\ StrategyThrows(t))
            => /\ Len(items') = Len(items)
               /\ queue' = queue
               /\ (threads[t].kind = "tick"
                    /\ \E k \in 1..Len(threads[t].entries) :
                          ToExecute(t, threads[t].entries[k]))
                  => /\ threads'[t].pc = "strategy"
                     /\ Len(threads'[t].entries) < Len(threads[t].entries)
    ]_vars

\* a tick whose two matching entries both threw (no item of the day exists)
\* is in the sweep, re-driving an item of the day before
C26_Witness ==
    \E t \in Threads :
        /\ threads[t].kind = "tick"
        /\ threads[t].ret = "sweep"
        /\ threads[t].pc = "post"
        /\ \E k \in 1..Len(settings.schedule) :
              TimeOfDay(LocalTime(threads[t].tickNow)) = settings.schedule[k].time
        /\ \A i \in 1..Len(items) :
              DateOf(items[i].createdAt) # DateOf(threads[t].tickNow)

\* the text of a reply as the gate compares it: without surrounding blanks,
\* in lower case
Folded(text) ==
    IF text = " OK " THEN "ok" ELSE IF text = "No" THEN "no" ELSE text

\* what a list of updates decides when a reply counts if its text, read by
\* read, is a keyword and its chat is the admin chat: the class of the first
\* such reply, or nothing
DecisionOf(updates, read(_)) ==
    LET counts(u) == /\ u.hasMsg
                     /\ u.fromAdmin
                     /\ read(u.text) \in {"/approve", "ok", "go", "/reject", "no", "skip"}
        hits == {k \in 1..Len(updates) : counts(updates[k])}
    IN  IF hits = {} THEN ""
        ELSE LET first == CHOOSE k \in hits : \A j \in hits : k <= j
             IN  IF read(updates[first].text) \in {"/approve", "ok", "go"}
                 THEN "approved" ELSE "rejected"

AsTyped(text) == text

\* C28, as the code has it: the gate's decision is the class of the first
\* update of the processed response that comes from the admin chat and whose
\* text, trimmed and in lower case, is a keyword; every other update is
\* passed over, later updates change nothing, and without such an update
\* there is no decision and polling goes on.
C28_FirstQualifyingReply ==
    gate.pending = DecisionOf(gate.batch, Folded)

\* C28, as stated: only a text that is exactly a keyword counts
C28_ExactKeywordOnly ==
    gate.pending = DecisionOf(gate.batch, AsTyped)

\* a keyword from another chat was passed over and the admin's "No" decided
C28_Witness ==
    /\ gate.pc = "ack"
    /\ Len(gate.batch) = 2
    /\ ~gate.batch[1].fromAdmin /\ gate.batch[1].text = "/approve"
    /\ gate.batch[2].fromAdmin /\ gate.batch[2].text = "No"
    /\ gate.pending = "rejected"

\* thread t moved while it awaited the callApi of stage pc, and that callApi
\* had failed
CallFailedAt(t, pc) ==
    /\ threads[t].pc = pc
    /\ threads'[t] # threads[t]
    /\ call[threads[t].slot].outcome # "ok"

\* the step appended an item of thread t's strategy to the queue
ItemCreatedBy(t) ==
    /\ Len(items') = Len(items) + 1
    /\ items'[Len(items')].strategy = threads[t].strategy
    /\ Len(queue') = Len(queue) + 1
    /\ queue'[Len(queue')] = Len(items')

\* C29: when the callApi of the text generation fails, whatever the failure,
\* the strategy gets the local text and goes on to the image or to its
\* contents; when the callApi of the image generation fails it gets no image;
\* and the execution ends with its item in the queue.
C29_FailureFallsBack ==
    [][\A t \in Threads :
         /\ CallFailedAt(t, "text")
            => /\ threads'[t].text = "local"
               /\ threads'[t].pc = "image" \/ ItemCreatedBy(t)
         /\ CallFailedAt(t, "image")
            => /\ threads'[t].image = "none"
               /\ ItemCreatedBy(t)
    ]_vars

\* the text call failed on the budget after an earlier payment, the image
\* call was made all the same, and the item is in the queue
C29_Witness ==
    \E t \in Threads :
        /\ threads[t].pc = "preview"
        /\ threads[t].text = "local"
        /\ threads[t].cause = "budget"
        /\ threads[t].image # ""
        /\ Len(payments) >= 1
        /\ \E i \in 1..Len(queue) : items[queue[i]].strategy = threads[t].strategy

\* C31: the payments list only grows at its end, with the recorded payments
\* unchanged, and sessionSpending never decreases and is never negative,
\* whatever amount a 402 response quotes.
C31_LedgerMonotonic ==
    [][/\ Len(payments') >= Len(payments)
       /\ SubSeq(payments', 1, Len(payments)) = payments
       /\ sessionSpending' >= sessionSpending
       /\ sessionSpending' >= 0]_vars

\* C32: the spending snapshot reports spent = sessionSpending and remaining =
\* maxBudget - sessionSpending, and remaining is never negative, also after a
\* settings request has changed maxBudget.
C32_SnapshotConsistent ==
    /\ getSpending.spent = sessionSpending
    /\ getSpending.remaining = maxBudget - sessionSpending
    /\ getSpending.remaining >= 0

\* C33: as long as no forced retry was requested, an item in status
\* published, partial or failed keeps its status, its platforms and its
\* results through every step of a tick, a retry sweep or an approve request.
C33_FinalStatuses ==
    [][\A id \in 1..Len(items) :
          (/\ forced = 0 /\ forced' = 0
           /\ InQueue(id)
           /\ \E i \in 1..Len(queue') : queue'[i] = id
           /\ Settled(id))
          => /\ items'[id].status = items[id].status
             /\ items'[id].platforms = items[id].platforms
             /\ items'[id].results = items[id].results
    ]_vars

\* C34: a publisher call is in flight for an item created with
\* autoPublish = false only after an approve request for that item was
\* accepted, whatever forced retries, approvals, deletions and ticks occur.
C34_NoPublisherBeforeApproval ==
    \A t \in Threads :
        (threads[t].pc = "post" /\ ~items[threads[t].item].autoPublish)
        => threads[t].item \in approved

\* an item awaiting approval was force-retried and the sweep ran its pass,
\* which ended without any approval
C34_Witness ==
    \E id \in 1..Len(items) :
        /\ InQueue(id)
        /\ ~items[id].autoPublish
        /\ id \notin approved
        /\ forced > 0
        /\ items[id].status = "published"

\* C35: no two activations are inside the platform loop of a publish pass on
\* the same item at the same time.
C35_OnePassPerItem ==
    \A t1, t2 \in Threads :
        (/\ t1 # t2
         /\ threads[t1].pc = "post"
         /\ threads[t2].pc = "post")
        => threads[t1].item # threads[t2].item

\* the item was created and the delete request for it has completed
Deleted(id) == id \in 1..Len(items) /\ ~InQueue(id)

\* C36: once the delete request for an item has completed, no publisher call
\* is started for that item and the item is neither in the queue in memory nor
\* in the persisted queue, whatever sweep or pass was in flight at the delete.
C36_DeletedStaysOut ==
    [][\A id \in 1..Len(items) :
          Deleted(id)
          => /\ \A i \in 1..Len(queue') : queue'[i] # id
             /\ \A i \in 1..Len(disk') : disk'[i].id # id
             /\ \A t \in Threads :
                   ~(/\ threads'[t].pc = "post"
                     /\ threads'[t].item = id
                     /\ threads'[t] # threads[t])
    ]_vars

\* C37: every item of the queue whose status is pending or publishing, the
\* items loaded at the restart included, eventually has one of the statuses
\* published, partial, retry or failed.
C37_LoadedEventuallyDriven ==
    \A id \in 1..MaxItems :
        (id <= Len(items) /\ items[id].status \in {"pending", "publishing"})
        ~> (id <= Len(items)
            /\ items[id].status \in {"published", "partial", "retry", "failed"})

\* at most one live timer, and the running flag, the timer handle and the
\* live timer agree
TimerConsistent ==
    /\ Cardinality(scheduler.timers) <= 1
    /\ scheduler.running <=> scheduler.timers # {}
    /\ scheduler.running <=> scheduler.interval # 0
    /\ scheduler.running => scheduler.timers = {scheduler.interval}

\* C38: under any sequence of start and stop requests at most one interval
\* timer exists and the running flag is true exactly when a timer exists; a
\* start request served while running creates no timer and starts no tick;
\* a tick starts only by a live timer of the running scheduler or by the
\* start that has just created the timer; after a stop no timer is live.
C38_OneTimer ==
    [][/\ TimerConsistent
       /\ TimerConsistent'
       /\ (/\ scheduler.running
           /\ scheduler'.running
           /\ scheduler'.requests # scheduler.requests)
          => /\ scheduler'.timers = scheduler.timers
             /\ scheduler'.created = scheduler.created
             /\ UNCHANGED <<threads, items, queue, disk>>
       /\ \A t \in Threads :
             (threads[t].pc = "idle" /\ threads'[t].kind = "tick")
             => \/ scheduler.running /\ scheduler'.created = scheduler.created
                \/ ~scheduler.running /\ scheduler'.created = scheduler.created + 1
       /\ (scheduler'.requests # scheduler.requests /\ ~scheduler'.running)
          => scheduler'.timers = {}
    ]_vars

\* a start, a second start while running and a stop were served; one timer was
\* ever created, none is live, and the tick of the start has queued its item
C38_Witness ==
    /\ scheduler.requests = 3
    /\ scheduler.created = 1
    /\ ~scheduler.running
    /\ scheduler.timers = {}
    /\ Len(items) >= 1

====
